---- MODULE Spec2Model ----
(***************************************************************************)
(* A model of common/jinja2.py: the GOV.UK Frontend template preprocessor  *)
(* (GovukFrontendExtension.preprocess), the environment class and factory  *)
(* (GovukFrontendEnvironment, environment) and the two template helpers    *)
(* (break_words, query_transform).                                         *)
(*                                                                         *)
(* Text is a sequence of tokens.  A token is a TLA+ string that stands for *)
(* the very characters it spells: either one character (".", "_", "+",     *)
(* "/") or an indivisible run of characters ("params", "item", "legend",   *)
(* "for attribute, value in ").  The text a sequence stands for is the     *)
(* concatenation of its tokens.  The token sets are chosen so that a       *)
(* match of one of the program's patterns in the concatenated text always  *)
(* starts and ends on token boundaries.                                    *)
(***************************************************************************)
EXTENDS Integers, Sequences, FiniteSets, TLC

VARIABLES
    \* GovukFrontendExtension.preprocess: its arguments, its return value
    source, name, filename, result, pc,
    \* break_words: its argument, its return value
    word, markup, bpc,
    \* query_transform: the objects it reads and writes, its keyword
    \* arguments and return value on the last call, the number of calls
    heap, get0, kwargs, query, calls,
    \* environment(): os.environ["ENV"], the environments built so far, and
    \* the global tables (dict objects, by reference) they own
    ENV, envs, tables

\* Python's None where a text is expected
None == <<"<None>">>

----------------------------------------------------------------------------
(* Bounds *)

MaxLen == 5          \* tokens in a template source (regex rules)
MaxConcatLen == 5    \* tokens in a template source (concatenation rule)
MaxWordLen == 5      \* tokens in the argument of break_words
MaxVals == 2         \* values one key of request.GET carries
MaxOverrides == 2    \* keyword arguments of one query_transform call
MaxCalls == 2        \* query_transform calls on one request
MaxEnvs == 3         \* environments built

----------------------------------------------------------------------------
(* Text helpers *)

\* All sequences over S of length 0..n
SeqsUpTo(S, n) == UNION {[1..k -> S] : k \in 0..n}

\* Tokens that are exactly one character long.
SingleChars == {".", "_", "+", "~", "(", "/", "-", " "}

\* The regex metacharacter `.` inside a pattern: any one character but a
\* newline (no token here is a newline).  An escaped `\.` is the literal
\* token ".".
Dot == "<any char>"

\* str.endswith for a text whose last token is its extension
EndsWith(s, suffix) == Len(s) > 0 /\ s[Len(s)] = suffix

\* Does pattern element e match token t?
MatchesElem(e, t) == IF e = Dot THEN t \in SingleChars ELSE t = e

\* Does the pattern (a sequence of elements) match s at position i?
MatchesAt(s, i, pat) ==
    /\ i >= 1
    /\ i + Len(pat) - 1 <= Len(s)
    /\ \A k \in 1..Len(pat) : MatchesElem(pat[k], s[i + k - 1])

\* The first alternative of `alts` (in order) which, followed by `tail`,
\* matches at i; 0 when none does.  This is the regex `(a|b|...)tail` with
\* its backtracking over the alternation.
RECURSIVE FirstAlt(_, _, _, _, _)
FirstAlt(s, i, alts, tail, k) ==
    IF k > Len(alts) THEN 0
    ELSE IF MatchesAt(s, i, alts[k] \o tail) THEN k
    ELSE FirstAlt(s, i, alts, tail, k + 1)

\* re.sub of the pattern  HEAD(ALT1|ALT2|...)TAIL  by  HEAD(ALT|default({}))TAIL
\* over s from position i on: leftmost match first, matches never overlap,
\* text outside the matches is copied.  HEAD and TAIL are literal.
RECURSIVE ReSubGuard(_, _, _, _, _)
ReSubGuard(s, i, head, alts, tail) ==
    IF i > Len(s) THEN <<>>
    ELSE IF MatchesAt(s, i, head) /\ FirstAlt(s, i + Len(head), alts, tail, 1) # 0
         THEN LET a == alts[FirstAlt(s, i + Len(head), alts, tail, 1)]
                  g == SubSeq(s, i + Len(head), i + Len(head) + Len(a) - 1)
                  n == Len(head) + Len(a) + Len(tail)
              IN  head \o <<"(">> \o g \o <<"|default({}))">> \o tail
                    \o ReSubGuard(s, i + n, head, alts, tail)
         ELSE <<s[i]>> \o ReSubGuard(s, i + 1, head, alts, tail)

\* str.replace(old, new): leftmost occurrence first, occurrences never overlap
RECURSIVE StrReplace(_, _, _, _)
StrReplace(s, i, old, new) ==
    IF i > Len(s) THEN <<>>
    ELSE IF i + Len(old) - 1 <= Len(s) /\ SubSeq(s, i, i + Len(old) - 1) = old
         THEN new \o StrReplace(s, i + Len(old), old, new)
         ELSE <<s[i]>> \o StrReplace(s, i + 1, old, new)

----------------------------------------------------------------------------
(* GovukFrontendExtension.preprocess *)

For == "for attribute, value in "
MaxExpr == " (params.maxlength or params.maxwords) "

\* An allow-list that names the expression the upstream step already handles
IteratedObjectsParams == << <<"params", Dot, "attributes">> >>

\* iterated_objects: r"item.attributes" (the dot is not escaped)
IteratedObjects == << <<"item", Dot, "attributes">> >>

\* An allow-list with one entry lost
NestedAttrsShort ==
    << <<"cell", Dot, "attributes">>,
       <<"item", Dot, "conditional">>,
       <<"item", Dot, "hint">>,
       <<"item", Dot, "label">>,
       <<"params", Dot, "attributes">>,
       <<"params", Dot, "countMessage">>,
       <<"params", Dot, "formGroup">>,
       <<"params", Dot, "prefix">>,
       <<"params", Dot, "suffix">> >>

\* nested_attrs, in the order of the source (the dots are not escaped)
NestedAttrs ==
    << <<"cell", Dot, "attributes">>,
       <<"item", Dot, "conditional">>,
       <<"item", Dot, "hint">>,
       <<"item", Dot, "label">>,
       <<"params", Dot, "attributes">>,
       <<"params", Dot, "countMessage">>,
       <<"params", Dot, "formGroup">>,
       <<"params", Dot, "legend">>,
       <<"params", Dot, "prefix">>,
       <<"params", Dot, "suffix">> >>

\* The upstream translation of Nunjucks to Jinja (njk_to_j2), in the part
\* that touches the tokens used here: Nunjucks `elseif` is Jinja `elif`.
NjkToJ2(s) == [k \in 1..Len(s) |-> IF s[k] = "elseif" THEN "elif" ELSE s[k]]

\* super().preprocess: NunjucksExtension.preprocess translates the templates
\* whose *name* ends in ".njk" and returns every other source as it is.
BasePreprocess(src, nm, fn) ==
    IF nm # None /\ EndsWith(nm, ".njk") THEN NjkToJ2(src) ELSE src

\* `filename and filename.endswith(".njk")`
IsNjkFile(fn) == fn # None /\ fn # <<>> /\ EndsWith(fn, ".njk")

\* fix iterating objects
FixIter(s) == ReSubGuard(s, 1, <<For>>, IteratedObjects, <<>>)

\* fix nested attribute access
FixNested(s) == ReSubGuard(s, 1, <<>>, NestedAttrs, <<".">>)

\* A replacement that turns only the first "+" into "~"
FixConcatHalf(s) == StrReplace(s, 1, <<"+", MaxExpr, "+">>, <<"~", MaxExpr, "+">>)

\* fix concatenating str and int
FixConcat(s) == StrReplace(s, 1, <<"+", MaxExpr, "+">>, <<"~", MaxExpr, "~">>)

\* A preprocess that hands every other source to the baseline step
preprocessDelegating(src, nm, fn) ==
    IF IsNjkFile(fn)
    THEN FixConcat(FixNested(FixIter(BasePreprocess(src, nm, fn))))
    ELSE BasePreprocess(src, nm, fn)

preprocess(src, nm, fn) ==
    IF IsNjkFile(fn)
    THEN FixConcat(FixNested(FixIter(BasePreprocess(src, nm, fn))))
    ELSE src

----------------------------------------------------------------------------
(* Inputs of preprocess *)

AttrTokens == {"params", "legend", "item", "hint", ".", "_", "text"}
IterTokens == {For, "item", "params", "attributes", ".", "_"}
ConcatTokens == {"+", MaxExpr, "elseif", "text"}
\* The other entries of nested_attrs, in shorter sources
ItemTokens == {"cell", "item", "attributes", "conditional", "label", ".", "_"}
ParamsTokens == {"params", "countMessage", "formGroup", "prefix", "suffix", ".", "_"}

Sources ==
    SeqsUpTo(AttrTokens, MaxLen) \cup SeqsUpTo(IterTokens, MaxLen)
        \cup SeqsUpTo(ConcatTokens, MaxConcatLen)
        \cup SeqsUpTo(ItemTokens, MaxLen - 1) \cup SeqsUpTo(ParamsTokens, MaxLen - 1)

NjkName == <<"components/radios/template", ".njk">>
HtmlName == <<"page", ".html">>
NjkFile == <<"/srv/templates/components/radios/template", ".njk">>
HtmlFile == <<"/srv/templates/page", ".html">>

\* (name, filename) as a loader hands them over: the filename is the path of
\* the named template, or None / empty when the loader has no file for it.
Loads ==
    { <<NjkName, NjkFile>>, <<NjkName, None>>, <<NjkName, <<>> >>,
      <<HtmlName, HtmlFile>> }

NoResult == <<"<not called>">>

InitPre ==
    /\ source \in Sources
    /\ \E l \in Loads : name = l[1] /\ filename = l[2]
    /\ result = NoResult
    /\ pc = "start"

Preprocess ==
    /\ pc = "start"
    /\ result' = preprocess(source, name, filename)
    /\ pc' = "done"
    /\ UNCHANGED <<source, name, filename>>

varsPre == <<source, name, filename, result, pc>>

----------------------------------------------------------------------------
(* break_words *)

\* The characters of \w among the tokens: letters, digits, underscore.
WordChars == {"hello", "goodbye", "_"}

Zwsp == "&#8203;"

\* A pattern without its `+`: a run ends where it starts
RunEndOne(s, i) == i

\* The end of the run of non-word tokens that starts at i: `[^\w]+` is greedy.
RECURSIVE RunEnd(_, _)
RunEnd(s, i) ==
    IF i + 1 <= Len(s) /\ s[i + 1] \notin WordChars THEN RunEnd(s, i + 1) ELSE i

\* re.sub(r"([^\w]+)", r"&#8203;\1&#8203;", word), from position i on
RECURSIVE SubNonWord(_, _)
SubNonWord(s, i) ==
    IF i > Len(s) THEN <<>>
    ELSE IF s[i] \notin WordChars
         THEN <<Zwsp>> \o SubSeq(s, i, RunEnd(s, i)) \o <<Zwsp>>
                \o SubNonWord(s, RunEnd(s, i) + 1)
         ELSE <<s[i]>> \o SubNonWord(s, i + 1)

\* markupsafe.Markup: the text, marked as safe to emit without escaping
Markup(s) == [safe |-> TRUE, text |-> s]

break_words(w) == Markup(SubNonWord(w, 1))

WordTokens == {"hello", "goodbye", "_", "/", "-", "."}
Words == SeqsUpTo(WordTokens, MaxWordLen)

NoMarkup == [safe |-> FALSE, text |-> NoResult]

InitBreak ==
    /\ word \in Words
    /\ markup = NoMarkup
    /\ bpc = "start"

BreakWords ==
    /\ bpc = "start"
    /\ markup' = break_words(word)
    /\ bpc' = "done"
    /\ UNCHANGED word

varsBreak == <<word, markup, bpc>>

----------------------------------------------------------------------------
(* query_transform *)

\* A Python value: its type and its text.  str(v) is the text.
PyStr(t) == <<"str", t>>
PyInt(t) == <<"int", t>>
Str(v) == v[2]

\* A QueryDict is a sequence of entries <<key, list of values>>, one per
\* key, in insertion order (a dict of lists).
Keys(d) == {d[k][1] : k \in 1..Len(d)}
HasKey(d, key) == key \in Keys(d)
IndexOf(d, key) == CHOOSE k \in 1..Len(d) : d[k][1] = key

\* MultiValueDict.__setitem__: the key's list becomes [value]
SetItem(d, key, value) ==
    IF HasKey(d, key)
    THEN [d EXCEPT ![IndexOf(d, key)] = <<key, <<value>> >>]
    ELSE Append(d, <<key, <<value>> >>)

\* urllib's quoting of one value, on the values used here
Quote(t) == IF t = "x y" THEN "x+y" ELSE t

\* key=value for every value of one entry, joined by "&"
RECURSIVE EncodeEntry(_, _, _)
EncodeEntry(key, vals, i) ==
    IF i > Len(vals) THEN <<>>
    ELSE (IF i > 1 THEN <<"&">> ELSE <<>>)
           \o <<key, "=", Quote(Str(vals[i]))>> \o EncodeEntry(key, vals, i + 1)

\* QueryDict.urlencode
RECURSIVE UrlEncode(_, _)
UrlEncode(d, i) ==
    IF i > Len(d) THEN <<>>
    ELSE (IF i > 1 THEN <<"&">> ELSE <<>>)
           \o EncodeEntry(d[i][1], d[i][2], 1) \o UrlEncode(d, i + 1)

\* The request: its GET attribute refers to the object "GET" of the heap.
request == [GET |-> "GET"]

\* No copy: the reference of request.GET itself
QueryDictAlias(ref) == ref

\* request.GET.copy(): a new object; the reference to it
QueryDictCopy(ref) == "updated"

\* for key, value in kwargs.items(): updated[key] = value
RECURSIVE SetAll(_, _, _, _)
SetAll(h, ref, kw, i) ==
    IF i > Len(kw) THEN h
    ELSE SetAll([h EXCEPT ![ref] = SetItem(h[ref], kw[i][1], kw[i][2])], ref, kw, i + 1)

UniqueKeys(d) == \A i, j \in 1..Len(d) : d[i][1] = d[j][1] => i = j

GetKeys == {"a", "b"}
GetVals == {PyStr("1"), PyStr("2")}
OverrideKeys == {"a", "b", "c"}
OverrideVals == {PyInt("3"), PyStr("x y")}

QueryDicts ==
    {d \in SeqsUpTo(GetKeys \X (SeqsUpTo(GetVals, MaxVals) \ {<<>>}), Cardinality(GetKeys)) :
        UniqueKeys(d)}

Overrides ==
    {kw \in SeqsUpTo(OverrideKeys \X OverrideVals, MaxOverrides) : UniqueKeys(kw)}

InitQuery ==
    /\ get0 \in QueryDicts
    /\ heap = [r \in {"GET", "updated"} |-> IF r = "GET" THEN get0 ELSE <<>>]
    /\ kwargs = <<>>
    /\ query = NoResult
    /\ calls = 0

QueryTransform(kw) ==
    /\ calls < MaxCalls
    /\ LET updated == QueryDictCopy(request.GET)
           h1 == [heap EXCEPT ![updated] = heap[request.GET]]
           h2 == SetAll(h1, updated, kw, 1)
       IN  /\ heap' = h2
           /\ query' = UrlEncode(h2[updated], 1)
    /\ kwargs' = kw
    /\ calls' = calls + 1
    /\ UNCHANGED get0

varsQuery == <<heap, get0, kwargs, query, calls>>

----------------------------------------------------------------------------
(* GovukFrontendEnvironment and environment() *)

\* A dict is a function on the set of its keys.
EmptyDict == [k \in {} |-> <<>>]
Item(key, value) == [k \in {key} |-> value]

\* dict.update(other)
Update(d, other) ==
    [k \in DOMAIN d \cup DOMAIN other |-> IF k \in DOMAIN other THEN other[k] ELSE d[k]]

\* dict.setdefault(key, default)
SetDefault(d, key, default) ==
    IF key \in DOMAIN d THEN d ELSE Update(d, Item(key, default))

\* A value of a global table: <<kind, what, bound table>>.  A function or
\* object is named; a string carries its text; a functools.partial carries
\* the reference of the table bound as its first argument.
Func(f) == <<"function", f, 0>>
Text(t) == <<"str", t, 0>>
Partial(f, ref) == <<"partial", f, ref>>

Unset == "<unset>"

\* os.environ.get(key, default) with key = "ENV"
EnvironGet(environ, default) == IF environ = Unset THEN default ELSE environ

GovukFrontendExtension == "GovukFrontendExtension"
NunjucksExtension == "NunjucksExtension"

\* An __init__ that sets the extensions whatever the caller supplied
GovukInitOverwrite(kw) == Update(kw, Item("extensions", <<GovukFrontendExtension>>))

\* GovukFrontendEnvironment.__init__: the keyword arguments handed on
GovukInit(kw) == SetDefault(kw, "extensions", <<GovukFrontendExtension>>)

\* govuk_frontend_jinja's Environment.__init__ defaults the extensions the
\* same way, and jinja2 loads the listed extensions in the order given.
LoadedExtensions(kw) == SetDefault(kw, "extensions", <<NunjucksExtension>>)["extensions"]

\* The global table of a new jinja2 environment (its default namespace)
DefaultGlobals == [k \in {"range", "dict"} |-> Func(k)]

\* A table whose "env" was read once, before ENV was ever set
RegisteredGlobalsStale(environ) ==
    [k \in {"break_words", "query_transform", "crispy", "env", "get_messages",
            "localtime", "pluralize", "settings", "static", "url", "webpack_static"} |->
        IF k = "env" THEN Text("dev") ELSE Func(k)]

\* env.globals.update({...}) of environment()
RegisteredGlobals(environ) ==
    [k \in {"break_words", "query_transform", "crispy", "env", "get_messages",
            "localtime", "pluralize", "settings", "static", "url", "webpack_static"} |->
        IF k = "env" THEN Text(EnvironGet(environ, "dev")) ELSE Func(k)]

\* The reference of the global table a new environment creates for itself
NewTable(n) == n + 1

\* A renderer bound to the table of the first environment built
BoundFirst(ref) == 1

\* The table partial(render_bundle, env.globals) binds
BoundGlobals(ref) == ref

\* Keyword configurations of a caller
Configs ==
    { EmptyDict,
      Item("autoescape", <<"True">>),
      Item("extensions", <<"jinja2.ext.i18n">>),
      Item("extensions", <<GovukFrontendExtension, "jinja2.ext.i18n">>) }

EnvValues == {"dev", "prod"}

InitEnv ==
    /\ ENV = Unset
    /\ envs = <<>>
    /\ tables = <<>>

SetENV(v) ==
    /\ ENV # v
    /\ ENV' = v
    /\ UNCHANGED <<envs, tables>>

UnsetENV ==
    /\ ENV # Unset
    /\ ENV' = Unset
    /\ UNCHANGED <<envs, tables>>

\* env = environment(**kw)
Environment(kw) ==
    /\ Len(envs) < MaxEnvs
    /\ LET ref == NewTable(Len(tables))
           t1 == Update(DefaultGlobals, RegisteredGlobals(ENV))
           t2 == Update(t1, Item("render_bundle", Partial("render_bundle", BoundGlobals(ref))))
           env == [extensions |-> LoadedExtensions(GovukInit(kw)),
                   filters |-> {"localtime"},
                   globals |-> ref,
                   config |-> kw,
                   environ |-> ENV,
                   set |-> EmptyDict]
       IN  /\ envs' = Append(envs, env)
           /\ tables' = [r \in 1..ref |-> IF r = ref THEN t2 ELSE tables[r]]
    /\ UNCHANGED ENV

\* env.globals[key] = value on an environment already returned
SetGlobal(i, key, value) ==
    /\ i \in 1..Len(envs)
    /\ key \notin DOMAIN envs[i].set
    /\ tables' = [tables EXCEPT ![envs[i].globals] = Update(@, Item(key, value))]
    /\ envs' = [envs EXCEPT ![i].set = Update(@, Item(key, value))]
    /\ UNCHANGED ENV

varsEnv == <<ENV, envs, tables>>

----------------------------------------------------------------------------
(* Specifications *)

vars == <<source, name, filename, result, pc, word, markup, bpc,
          heap, get0, kwargs, query, calls, ENV, envs, tables>>

IdlePre ==
    /\ source = <<>> /\ name = None /\ filename = None
    /\ result = NoResult /\ pc = "idle"

IdleBreak == word = <<>> /\ markup = NoMarkup /\ bpc = "idle"

IdleQuery ==
    /\ get0 = <<>> /\ heap = [r \in {"GET", "updated"} |-> <<>>]
    /\ kwargs = <<>> /\ query = NoResult /\ calls = MaxCalls

\* preprocess on every source and load
NextPre == Preprocess /\ UNCHANGED <<varsBreak, varsQuery, varsEnv>>
StartPre == InitPre /\ IdleBreak /\ IdleQuery /\ InitEnv
SpecPre == StartPre /\ [][NextPre]_vars

\* break_words on every word
NextBreak == BreakWords /\ UNCHANGED <<varsPre, varsQuery, varsEnv>>
StartBreak == IdlePre /\ InitBreak /\ IdleQuery /\ InitEnv
SpecBreak == StartBreak /\ [][NextBreak]_vars

\* query_transform, called again and again on one request
NextQuery ==
    \E kw \in Overrides : QueryTransform(kw) /\ UNCHANGED <<varsPre, varsBreak, varsEnv>>
StartQuery == IdlePre /\ IdleBreak /\ InitQuery /\ InitEnv
SpecQuery == StartQuery /\ [][NextQuery]_vars

\* environment() called while ENV is set and unset
NextEnv ==
    \/ \E v \in EnvValues : SetENV(v) /\ UNCHANGED <<varsPre, varsBreak, varsQuery>>
    \/ UnsetENV /\ UNCHANGED <<varsPre, varsBreak, varsQuery>>
    \/ \E kw \in Configs : Environment(kw) /\ UNCHANGED <<varsPre, varsBreak, varsQuery>>
StartEnv == IdlePre /\ IdleBreak /\ IdleQuery /\ InitEnv
SpecEnv == StartEnv /\ [][NextEnv]_vars

\* environment() called, and globals set on the environments it returned
GlobalKeys == {"static", "extra"}
NextGlobals ==
    \/ \E kw \in Configs : Environment(kw) /\ UNCHANGED <<varsPre, varsBreak, varsQuery>>
    \/ \E i \in 1..MaxEnvs, key \in GlobalKeys :
          SetGlobal(i, key, Text("changed")) /\ UNCHANGED <<varsPre, varsBreak, varsQuery>>
StartGlobals == IdlePre /\ IdleBreak /\ IdleQuery /\ InitEnv
SpecGlobals == StartGlobals /\ [][NextGlobals]_vars


----------------------------------------------------------------------------
(* Properties of preprocess *)

\* Is the literal text lit at position i of s?
IsAt(s, i, lit) ==
    i + Len(lit) - 1 <= Len(s) /\ SubSeq(s, i, i + Len(lit) - 1) = lit

Occurrences(s, lit) == {i \in 1..Len(s) : IsAt(s, i, lit)}
Contains(s, lit) == Occurrences(s, lit) # {}
Count(s, lit) == Cardinality(Occurrences(s, lit))

\* The expressions the rules are written for, as dotted paths
IteratedExprs == << <<"item", ".", "attributes">> >>
NestedExprs ==
    << <<"cell", ".", "attributes">>,
       <<"item", ".", "conditional">>,
       <<"item", ".", "hint">>,
       <<"item", ".", "label">>,
       <<"params", ".", "attributes">>,
       <<"params", ".", "countMessage">>,
       <<"params", ".", "formGroup">>,
       <<"params", ".", "legend">>,
       <<"params", ".", "prefix">>,
       <<"params", ".", "suffix">> >>

\* EXPR as guarded by a rule: (EXPR|default({}))
Guarded(expr) == <<"(">> \o expr \o <<"|default({}))">>

\* The source as the baseline step hands it to the three rules
Translated == BasePreprocess(source, name, filename)

NjkDone == pc = "done" /\ IsNjkFile(filename)
OtherDone == pc = "done" /\ ~IsNjkFile(filename)

\* C2, as the specification states it: for a path that is absent or does not
\* end in ".njk", preprocess returns the result of the baseline step.
C2_BaselineResult == OtherDone => result = Translated

\* C2, amended: for a path that is absent, empty or does not end in ".njk",
\* preprocess returns the source itself; the baseline step is not run and
\* none of the three rules is applied.
C2_SourceReturned == OtherDone => result = source

\* A template the baseline step would translate, returned as it came
C2_Witness ==
    /\ OtherDone
    /\ Translated # source
    /\ Contains(source, <<"+", MaxExpr, "+">>)
    /\ result = source

\* C3: for a ".njk" path, every `PREFIX.` of the allow-list in the translated
\* source is `(PREFIX|default({})).` in the output, once per occurrence, and
\* no `PREFIX.` of the allow-list is left; `params.legend.text` becomes
\* `(params.legend|default({})).text`.
C3_NestedGuarded ==
    NjkDone =>
        /\ \A k \in 1..Len(NestedExprs) :
              LET prefix == NestedExprs[k]
              IN  /\ ~Contains(result, prefix \o <<".">>)
                  /\ Count(result, Guarded(prefix) \o <<".">>)
                        = Count(Translated, prefix \o <<".">>)
        /\ Translated = <<"params", ".", "legend", ".", "text">>
              => result = <<"(", "params", ".", "legend", "|default({}))", ".", "text">>

C3_Witness ==
    /\ NjkDone
    /\ source = <<"params", ".", "legend", ".", "text">>
    /\ result = <<"(", "params", ".", "legend", "|default({}))", ".", "text">>

\* C4: for a ".njk" path, every `for attribute, value in item.attributes` of
\* the translated source is `for attribute, value in
\* (item.attributes|default({}))` in the output: the two later rules leave
\* the guarded expression as the first rule wrote it.
C4_IterationGuarded ==
    NjkDone =>
        LET expr == IteratedExprs[1]
        IN  /\ Count(result, <<For>> \o Guarded(expr))
                  = Count(Translated, <<For>> \o expr)
            /\ ~Contains(result, <<For>> \o expr)

\* The iteration, followed by an attribute access the second rule rewrites
C4_Witness ==
    /\ NjkDone
    /\ source = <<For, "item", ".", "attributes", ".">>
    /\ result = <<For, "(", "item", ".", "attributes", "|default({}))", ".">>

\* C5: for a ".njk" path and a translated source that contains
\* `+ (params.maxlength or params.maxwords) +`, the output contains
\* `~ (params.maxlength or params.maxwords) ~` and the original nowhere.
C5_ConcatRewritten ==
    NjkDone /\ Contains(Translated, <<"+", MaxExpr, "+">>) =>
        /\ Contains(result, <<"~", MaxExpr, "~">>)
        /\ ~Contains(result, <<"+", MaxExpr, "+">>)

\* Two occurrences that share a "+": only the first is replaced
C5_Witness ==
    /\ NjkDone
    /\ source = <<"+", MaxExpr, "+", MaxExpr, "+">>
    /\ result = <<"~", MaxExpr, "~", MaxExpr, "+">>

\* C10: for a ".njk" path, the two regex rules change the translated source
\* only where an allow-listed expression stands with its literal dot: the
\* output is what the rules written with escaped dots give.
C10_LiteralDotOnly ==
    NjkDone =>
        result =
            FixConcat(
                ReSubGuard(
                    ReSubGuard(Translated, 1, <<For>>, IteratedExprs, <<>>),
                    1, <<>>, NestedExprs, <<".">>))

----------------------------------------------------------------------------
(* Properties of break_words *)

NonWord(t) == t \notin WordChars /\ t # Zwsp

\* The places where a maximal run of non-word characters starts
RunStarts(s) ==
    {i \in 1..Len(s) : s[i] \notin WordChars /\ (i = 1 \/ s[i - 1] \in WordChars)}

IsMarker(t) == t = Zwsp
NotMarker(t) == t # Zwsp

----------------------------------------------------------------------------
(* Properties of query_transform *)

\* urllib's unquoting of one value, on the values used here
Unquote(t) == IF t = "x+y" THEN "x y" ELSE t

\* The values the query string q gives key, in order (q is key=value pairs
\* joined by "&": four tokens a pair)
RECURSIVE ValuesIn(_, _, _)
ValuesIn(q, key, i) ==
    IF i + 2 > Len(q) THEN <<>>
    ELSE (IF q[i] = key THEN <<Unquote(q[i + 2])>> ELSE <<>>) \o ValuesIn(q, key, i + 4)

WellFormed(q) ==
    /\ q = <<>> \/ Len(q) % 4 = 3
    /\ \A i \in 1..Len(q) : (i % 4 = 2 => q[i] = "=") /\ (i % 4 = 0 => q[i] = "&")

Texts(vals) == [k \in 1..Len(vals) |-> Str(vals[k])]

\* C6: the string returned is the encoding of a mapping with every key of
\* request.GET that is not overridden, with its values, and every override
\* key with exactly the value supplied; request.GET is after every call
\* what it was before the first.
C6_OverridesAndFrame ==
    calls > 0 =>
        /\ heap[request.GET] = get0
        /\ WellFormed(query)
        /\ \A key \in GetKeys \cup OverrideKeys :
              ValuesIn(query, key, 1) =
                  IF HasKey(kwargs, key) THEN <<Str(kwargs[IndexOf(kwargs, key)][2])>>
                  ELSE IF HasKey(get0, key) THEN Texts(get0[IndexOf(get0, key)][2])
                  ELSE <<>>

\* a=1&b=2 with b=3 gives a=1&b=3, on the second call on the request
C6_Witness ==
    /\ calls = 2
    /\ get0 = << <<"a", <<PyStr("1")>> >>, <<"b", <<PyStr("2")>> >> >>
    /\ kwargs = << <<"b", PyInt("3")>> >>
    /\ query = <<"a", "=", "1", "&", "b", "=", "3">>
    /\ heap[request.GET] = get0

----------------------------------------------------------------------------
(* Properties of GovukFrontendEnvironment and environment() *)

Elems(seq) == {seq[k] : k \in 1..Len(seq)}
Position(seq, e) == CHOOSE k \in 1..Len(seq) : seq[k] = e

\* The extensions the caller supplied
Supplied(env) ==
    IF "extensions" \in DOMAIN env.config THEN env.config["extensions"] ELSE <<>>

\* C1, as the specification states it: whatever the caller's configuration,
\* the Preprocessor is an extension of the environment, ahead of every
\* extension the caller supplied, and every one of those is still there.
C1_AlwaysInstalledFirst ==
    \A i \in 1..Len(envs) :
        LET ext == envs[i].extensions
            sup == Supplied(envs[i])
        IN  /\ GovukFrontendExtension \in Elems(ext)
            /\ Elems(sup) \subseteq Elems(ext)
            /\ \A e \in Elems(sup) \ {GovukFrontendExtension} :
                  Position(ext, GovukFrontendExtension) < Position(ext, e)

\* C1, amended: without an 'extensions' entry in the caller's configuration
\* the Preprocessor is the environment's one extension; with one, the
\* environment's extensions are the caller's list as supplied.
C1_DefaultOnly ==
    \A i \in 1..Len(envs) :
        envs[i].extensions =
            IF "extensions" \in DOMAIN envs[i].config
            THEN envs[i].config["extensions"]
            ELSE <<GovukFrontendExtension>>

\* An environment built with the caller's own list, and one built without
C1_Witness ==
    \E i, j \in 1..Len(envs) :
        /\ envs[i].config = Item("extensions", <<"jinja2.ext.i18n">>)
        /\ envs[i].extensions = <<"jinja2.ext.i18n">>
        /\ envs[j].config = Item("autoescape", <<"True">>)
        /\ envs[j].extensions = <<GovukFrontendExtension>>

\* The names section 6 of the specification lists as globals
GlobalNames ==
    {"localtime", "break_words", "query_transform", "crispy", "env", "get_messages",
     "pluralize", "settings", "static", "url", "webpack_static", "render_bundle"}

Globals(i) == tables[envs[i].globals]

\* C8: however ENV is set and unset between the calls of environment(),
\* all environments built have the same global names, and the "env" global
\* of each is, in every later state, the value ENV had when it was built
\* ("dev" when ENV was unset).
C8_EnvAtBuildTime ==
    \A i \in 1..Len(envs) :
        /\ GlobalNames \subseteq DOMAIN Globals(i)
        /\ \A j \in 1..Len(envs) : DOMAIN Globals(i) = DOMAIN Globals(j)
        /\ Globals(i)["env"] =
              Text(IF envs[i].environ = Unset THEN "dev" ELSE envs[i].environ)

\* Three environments built under three values of ENV, and ENV changed since
C8_Witness ==
    /\ Len(envs) = 3
    /\ envs[1].environ = "prod" /\ Globals(1)["env"] = Text("prod")
    /\ envs[2].environ = Unset /\ Globals(2)["env"] = Text("dev")
    /\ envs[3].environ = "dev" /\ Globals(3)["env"] = Text("dev")
    /\ ENV = "prod"

\* The table env i would hold if only its own construction and the
\* assignments made to its own globals had written to it
OwnTable(i) ==
    Update(Update(Update(DefaultGlobals, RegisteredGlobals(envs[i].environ)),
                  Item("render_bundle", Partial("render_bundle", envs[i].globals))),
           envs[i].set)

\* C9: the "render_bundle" global of every environment is the renderer
\* bound to the table of that very environment, a table no other
\* environment has; the bound table holds every global name, "render_bundle"
\* included, and what is set in another environment's table does not show
\* in it.
C9_BoundToOwnTable ==
    \A i \in 1..Len(envs) :
        /\ "render_bundle" \in DOMAIN Globals(i)
        /\ Globals(i)["render_bundle"] = Partial("render_bundle", envs[i].globals)
        /\ \A j \in 1..Len(envs) : envs[j].globals = envs[i].globals => j = i
        /\ LET bound == tables[Globals(i)["render_bundle"][3]]
           IN  /\ GlobalNames \subseteq DOMAIN bound
               /\ bound = OwnTable(i)

\* A global added to the first environment and one replaced in the second
C9_Witness ==
    /\ Len(envs) >= 2
    /\ envs[1].set = Item("extra", Text("changed"))
    /\ envs[2].set = Item("static", Text("changed"))
    /\ "extra" \notin DOMAIN tables[Globals(2)["render_bundle"][3]]
    /\ tables[Globals(1)["render_bundle"][3]]["static"] = Func("static")
    /\ tables[Globals(2)["render_bundle"][3]]["static"] = Text("changed")

====
